---- MODULE Spec2Model ----
(***************************************************************************)
(* VisualizerClient and ManagedStructure (cpp_visualizer_client.cpp/.hpp): *)
(* one client instance with its reused libcurl easy handle, the nine       *)
(* public operations, the request each one configures on the handle, the   *)
(* exchange the handle then performs, and the interpretation of the        *)
(* response text.  Texts (request bodies, response bodies) are sequences   *)
(* of one-character strings; JSON is encoded and decoded on them.          *)
(***************************************************************************)
EXTENDS Integers, Sequences, FiniteSets, TLC

\* ------------------------------------------------------------------ bounds
\* Node identifiers passed by the caller range over 0..MaxNodeId.
MaxNodeId == 1
\* Positional indexes passed to addNode range over -1..MaxIndex.
MaxIndex == 0

\* ------------------------------------------------------------------- texts
Q == "\""

\* The characters used by the model, in ASCII order (std::map orders the
\* keys of a json object by operator< on std::string).
Ascii ==
  << "\"", ",", "-", "0", "1", "2", "3", "4", "5", "6", "7", "8", "9", ":",
     "<", ">", "S", "[", "]", "a", "c", "d", "e", "f", "g", "h", "i", "l",
     "m", "n", "o", "p", "r", "s", "t", "u", "v", "x", "y", "z", "{", "}" >>

CodeTable ==
  [c \in { Ascii[i] : i \in DOMAIN Ascii } |-> CHOOSE i \in DOMAIN Ascii : Ascii[i] = c]

Code(c) == CodeTable[c]

RECURSIVE LexLess(_, _)
LexLess(a, b) ==
  IF b = <<>> THEN FALSE
  ELSE IF a = <<>> THEN TRUE
  ELSE IF Code(Head(a)) # Code(Head(b)) THEN Code(Head(a)) < Code(Head(b))
  ELSE LexLess(Tail(a), Tail(b))

\* std::string::find(pat) != npos
Find(text, pat) ==
  \E i \in 1..(Len(text) - Len(pat) + 1) :
    SubSeq(text, i, i + Len(pat) - 1) = pat

\* Text literals
T_id       == << "i", "d" >>
T_node     == << "n", "o", "d", "e" >>
T_error    == << "e", "r", "r", "o", "r" >>
T_value    == << "v", "a", "l", "u", "e" >>
T_metadata == << "m", "e", "t", "a", "d", "a", "t", "a" >>
T_index    == << "i", "n", "d", "e", "x" >>
T_name     == << "n", "a", "m", "e" >>
T_type     == << "t", "y", "p", "e" >>
T_depth    == << "d", "e", "p", "t", "h" >>
T_initialSize == << "i", "n", "i", "t", "i", "a", "l", "S", "i", "z", "e" >>
T_color    == << "c", "o", "l", "o", "r" >>
T_red      == << "r", "e", "d" >>
T_linked_list == << "l", "i", "n", "k", "e", "d", "_", "l", "i", "s", "t" >>
T_QidQ     == << Q >> \o T_id \o << Q >>

\* ---------------------------------------------------------------- json
\* nlohmann::json values.  An object is the sequence of its <<key, value>>
\* members in key order.
JNull    == [k |-> "null"]
JBool(b) == [k |-> "bool", b |-> b]
JInt(n)  == [k |-> "int", n |-> n]
JStr(s)  == [k |-> "str", s |-> s]
JArr(a)  == [k |-> "arr", a |-> a]
JObj(m)  == [k |-> "obj", m |-> m]

IsObj(v) == v.k = "obj"
IsArr(v) == v.k = "arr"

\* json::contains(key): false on every value that is not an object
Contains(v, key) == IsObj(v) /\ \E i \in DOMAIN v.m : v.m[i][1] = key

\* json::operator[](key) on an object that holds the key
At(v, key) == v.m[CHOOSE i \in DOMAIN v.m : v.m[i][1] = key][2]

\* insert-or-assign into the ordered member list
RECURSIVE Put(_, _, _)
Put(m, key, val) ==
  IF m = <<>> THEN << <<key, val>> >>
  ELSE IF Head(m)[1] = key THEN << <<key, val>> >> \o Tail(m)
  ELSE IF LexLess(key, Head(m)[1]) THEN << <<key, val>> >> \o m
  ELSE << Head(m) >> \o Put(Tail(m), key, val)

\* json j = { {k1, v1}, {k2, v2}, ... }
RECURSIVE MakeObjM(_)
MakeObjM(pairs) ==
  IF pairs = <<>> THEN <<>>
  ELSE Put(MakeObjM(SubSeq(pairs, 1, Len(pairs) - 1)),
           pairs[Len(pairs)][1], pairs[Len(pairs)][2])

MakeObj(pairs) == JObj(MakeObjM(pairs))

\* ---- json::dump()
Digit(d) == Ascii[Code("0") + d]

RECURSIVE NatText(_)
NatText(n) == IF n < 10 THEN << Digit(n) >> ELSE NatText(n \div 10) \o << Digit(n % 10) >>

IntText(n) == IF n < 0 THEN << "-" >> \o NatText(-n) ELSE NatText(n)

RECURSIVE Dump(_)
RECURSIVE DumpMembers(_)
RECURSIVE DumpElements(_)
Dump(v) ==
  CASE v.k = "null" -> << "n", "u", "l", "l" >>
    [] v.k = "bool" -> IF v.b THEN << "t", "r", "u", "e" >> ELSE << "f", "a", "l", "s", "e" >>
    [] v.k = "int"  -> IntText(v.n)
    [] v.k = "str"  -> << Q >> \o v.s \o << Q >>
    [] v.k = "arr"  -> << "[" >> \o DumpElements(v.a) \o << "]" >>
    [] v.k = "obj"  -> << "{" >> \o DumpMembers(v.m) \o << "}" >>

DumpMembers(m) ==
  IF m = <<>> THEN <<>>
  ELSE << Q >> \o Head(m)[1] \o << Q, ":" >> \o Dump(Head(m)[2])
       \o (IF Len(m) > 1 THEN << "," >> \o DumpMembers(Tail(m)) ELSE <<>>)

DumpElements(a) ==
  IF a = <<>> THEN <<>>
  ELSE Dump(Head(a)) \o (IF Len(a) > 1 THEN << "," >> \o DumpElements(Tail(a)) ELSE <<>>)

\* ---- json::parse(text): [ok, v, p]; ok = FALSE is json::parse_error
IsDigit(c) == c \in { "0", "1", "2", "3", "4", "5", "6", "7", "8", "9" }
DigitVal(c) == Code(c) - Code("0")
Fail(p) == [ok |-> FALSE, v |-> JNull, p |-> p]
Ok(v, p) == [ok |-> TRUE, v |-> v, p |-> p]
Ch(t, p) == IF p <= Len(t) THEN t[p] ELSE "EOF"
Lit(t, p, w) == p + Len(w) - 1 <= Len(t) /\ SubSeq(t, p, p + Len(w) - 1) = w

\* the digits starting at p: [n, p]
RECURSIVE ScanNat(_, _, _)
ScanNat(t, p, acc) ==
  IF IsDigit(Ch(t, p)) THEN ScanNat(t, p + 1, 10 * acc + DigitVal(t[p]))
  ELSE [n |-> acc, p |-> p]

\* the characters of a string up to its closing quote: [ok, s, p]
RECURSIVE ScanStr(_, _, _)
ScanStr(t, p, acc) ==
  IF p > Len(t) THEN [ok |-> FALSE, s |-> acc, p |-> p]
  ELSE IF t[p] = Q THEN [ok |-> TRUE, s |-> acc, p |-> p + 1]
  ELSE ScanStr(t, p + 1, Append(acc, t[p]))

RECURSIVE ParseValue(_, _)
RECURSIVE ParseMembers(_, _, _)
RECURSIVE ParseElements(_, _, _)
ParseValue(t, p) ==
  LET c == Ch(t, p) IN
  CASE c = "{" ->
         IF Ch(t, p + 1) = "}" THEN Ok(JObj(<<>>), p + 2)
         ELSE ParseMembers(t, p + 1, <<>>)
    [] c = "[" ->
         IF Ch(t, p + 1) = "]" THEN Ok(JArr(<<>>), p + 2)
         ELSE ParseElements(t, p + 1, <<>>)
    [] c = Q ->
         LET s == ScanStr(t, p + 1, <<>>) IN
         IF s.ok THEN Ok(JStr(s.s), s.p) ELSE Fail(p)
    [] c = "-" ->
         IF IsDigit(Ch(t, p + 1))
         THEN LET r == ScanNat(t, p + 1, 0) IN Ok(JInt(-r.n), r.p)
         ELSE Fail(p)
    [] IsDigit(c) ->
         LET r == ScanNat(t, p, 0) IN Ok(JInt(r.n), r.p)
    [] c = "n" /\ Lit(t, p, << "n", "u", "l", "l" >>) -> Ok(JNull, p + 4)
    [] c = "t" /\ Lit(t, p, << "t", "r", "u", "e" >>) -> Ok(JBool(TRUE), p + 4)
    [] c = "f" /\ Lit(t, p, << "f", "a", "l", "s", "e" >>) -> Ok(JBool(FALSE), p + 5)
    [] OTHER -> Fail(p)

ParseMembers(t, p, acc) ==
  IF Ch(t, p) # Q THEN Fail(p)
  ELSE LET s == ScanStr(t, p + 1, <<>>) IN
       IF ~s.ok \/ Ch(t, s.p) # ":" THEN Fail(p)
       ELSE LET r == ParseValue(t, s.p + 1) IN
            IF ~r.ok THEN Fail(p)
            ELSE LET m == Put(acc, s.s, r.v) IN
                 CASE Ch(t, r.p) = "," -> ParseMembers(t, r.p + 1, m)
                   [] Ch(t, r.p) = "}" -> Ok(JObj(m), r.p + 1)
                   [] OTHER -> Fail(r.p)

ParseElements(t, p, acc) ==
  LET r == ParseValue(t, p) IN
  IF ~r.ok THEN Fail(p)
  ELSE CASE Ch(t, r.p) = "," -> ParseElements(t, r.p + 1, Append(acc, r.v))
         [] Ch(t, r.p) = "]" -> Ok(JArr(Append(acc, r.v)), r.p + 1)
         [] OTHER -> Fail(r.p)

\* json::parse: the whole text must be one value
Parse(t) ==
  LET r == ParseValue(t, 1) IN
  IF r.ok /\ r.p = Len(t) + 1 THEN r ELSE Fail(r.p)

\* ------------------------------------------------------------------ state
VARIABLES
  base_url_,   \* VisualizerClient::base_url_
  curl_,       \* VisualizerClient::curl_: "null" or "handle"
  handle,      \* the options held by the easy handle between calls
  last,        \* the most recent call of a public operation and what it did
  ms           \* the ManagedStructure in scope, if any

vars == << base_url_, curl_, handle, last, ms >>

\* CURLOPT_TIMEOUT and CURLOPT_CONNECTTIMEOUT set by the constructor
TimeoutSeconds == 10
ConnectTimeoutSeconds == 5

\* ------------------------------------------------- the libcurl easy handle
\* method: the request kind libcurl keeps (HTTPREQ_GET / HTTPREQ_POST);
\* customrequest: the CURLOPT_CUSTOMREQUEST string, "" when unset;
\* postfields: what CURLOPT_POSTFIELDS points at: "null", "json_string"
\* (the local of the running makeRequest) or "dangling" (that local after
\* makeRequest returned).  libcurl keeps every option until it is set again.
FreshHandle == [method |-> "GET", customrequest |-> "", postfields |-> "null"]

\* curl_easy_setopt(curl_, CURLOPT_POSTFIELDS, ptr): keeps the pointer (no
\* copy) and makes the request a POST
SetPostfields(h) == [h EXCEPT !.postfields = "json_string", !.method = "POST"]

\* curl_easy_setopt(curl_, CURLOPT_POST, 1L)
SetPost(h) == [h EXCEPT !.method = "POST"]

\* curl_easy_setopt(curl_, CURLOPT_CUSTOMREQUEST, verb): replaces only the
\* verb written on the request line
SetCustomRequest(h, verb) == [h EXCEPT !.customrequest = verb]

\* curl_easy_setopt(curl_, CURLOPT_HTTPGET, 1L)
SetHttpGet(h) == [h EXCEPT !.method = "GET"]

\* lines 156-169 of makeRequest: the options set for `method`
Configure(h, method) ==
  IF method = "POST" \/ method = "PUT"
  THEN IF method = "POST"
       THEN SetPost(SetPostfields(h))
       ELSE SetCustomRequest(SetPostfields(h), "PUT")
  ELSE IF method = "DELETE"
       THEN SetCustomRequest(h, "DELETE")
       ELSE SetHttpGet(h)

\* What a read through a dangling CURLOPT_POSTFIELDS pointer can yield: the
\* storage of a destroyed std::string, so no bytes up to the first NUL, or
\* whatever bytes are there now.
T_stale == << "x", "x" >>
DanglingReads == { <<>>, T_stale }

NoBody == [from |-> "none", text |-> <<>>]

\* The bodies the handle can send for its current options
Bodies(h, json_string) ==
  IF h.method # "POST" THEN { NoBody }
  ELSE CASE h.postfields = "json_string" -> { [from |-> "call", text |-> json_string] }
         [] h.postfields = "dangling" -> { [from |-> "dangling", text |-> t] : t \in DanglingReads }
         [] OTHER -> { [from |-> "call", text |-> <<>>] }

\* The verb on the request line
Verb(h) == IF h.customrequest # "" THEN h.customrequest ELSE h.method

\* curl_easy_perform(curl_): the sequences of requests it can put on the wire
PerformTwice(h, url, json_string) ==
  { << [verb |-> Verb(h), url |-> url, header |-> "Content-Type: application/json", body |-> b],
       [verb |-> Verb(h), url |-> url, header |-> "Content-Type: application/json", body |-> b] >> :
    b \in Bodies(h, json_string) }

Perform(h, url, json_string) ==
  { << [verb |-> Verb(h), url |-> url, header |-> "Content-Type: application/json", body |-> b] >> :
    b \in Bodies(h, json_string) }

\* json_string goes out of scope when makeRequest returns
AfterReturn(h) ==
  IF h.postfields = "json_string" THEN [h EXCEPT !.postfields = "dangling"] ELSE h

\* lines 177-182 of makeRequest
ReturnPartial(res, response_data) == response_data

MakeRequestReturn(res, response_data) ==
  IF res # "CURLE_OK" THEN <<>> ELSE response_data

\* makeRequest(method, endpoint, data) with the exchange's outcome o: the set
\* of [response, handle, wire] it can end with
makeRequest(method, endpoint, data, o) ==
  IF curl_ = "null"
  THEN { [response |-> <<>>, handle |-> handle, wire |-> <<>>] }
  ELSE LET url == [base |-> base_url_, endpoint |-> endpoint]
           json_string == IF method = "POST" \/ method = "PUT" THEN Dump(data) ELSE <<>>
           h == Configure(handle, method)
       IN { [response |-> MakeRequestReturn(o.res, o.text),
             handle   |-> AfterReturn(h),
             wire     |-> w] : w \in Perform(h, url, json_string) }

\* ------------------------------------------------------------- endpoints
NoText == <<>>

\* endpoint strings: the literal path with the structure name and
\* std::to_string(node_id) in their places
Endpoint(path, name, id) == [path |-> path, name |-> name, id |-> id]

\* a std::map<std::string, json> as a json value
MapToJson(metadata) == MakeObj(metadata)

\* ------------------------------------------- what each operation computes
\* catch (const std::exception& e): what the operation then returns.  The
\* exceptions of nlohmann::json all derive from std::exception.
StdExceptions == { "json::parse_error", "json::type_error" }
Catch(e, v) ==
  IF e \in StdExceptions THEN [ret |-> v, raised |-> FALSE]
  ELSE [ret |-> JNull, raised |-> TRUE]
Return(v) == [ret |-> v, raised |-> FALSE]

\* createStructure, lines 30-35
createStructureData(name, type, depth, initial_size) ==
  MakeObj(<< <<T_name, JStr(name)>>, <<T_type, JStr(type)>>,
             <<T_depth, JInt(depth)>>, <<T_initialSize, JInt(initial_size)>> >>)

\* createStructure, line 38
createStructureAnyText(response) == Return(JBool(response # <<>>))

createStructureResult(response) ==
  Return(JBool(response # <<>> /\ Find(response, T_QidQ)))

\* addNode, lines 45-52
addNodeDataOmitEmpty(value, index, metadata) ==
  LET data == IF metadata = <<>>
              THEN MakeObj(<< <<T_value, value>> >>)
              ELSE MakeObj(<< <<T_value, value>>, <<T_metadata, MapToJson(metadata)>> >>)
  IN IF index > 0 THEN JObj(Put(data.m, T_index, JInt(index))) ELSE data

addNodeData(value, index, metadata) ==
  LET data == MakeObj(<< <<T_value, value>>, <<T_metadata, MapToJson(metadata)>> >>)
  IN IF index >= 0 THEN JObj(Put(data.m, T_index, JInt(index))) ELSE data

\* json -> int, as `return result["node"]["id"]` converts: numbers and
\* booleans convert, every other kind throws json::type_error
ConvertsToInt(v) == v.k = "int" \/ v.k = "bool"
ToInt(v) == IF v.k = "int" THEN v.n ELSE IF v.b THEN 1 ELSE 0

\* addNode, lines 57-66
addNodeTopLevelId(response) ==
  LET r == Parse(response) IN
  IF ~r.ok THEN Catch("json::parse_error", JInt(-1))
  ELSE IF Contains(r.v, T_id)
       THEN IF ConvertsToInt(At(r.v, T_id))
            THEN Return(JInt(ToInt(At(r.v, T_id))))
            ELSE Catch("json::type_error", JInt(-1))
       ELSE Return(JInt(-1))

addNodeResult(response) ==
  LET r == Parse(response) IN
  IF ~r.ok THEN Catch("json::parse_error", JInt(-1))
  ELSE IF Contains(r.v, T_node) /\ Contains(At(r.v, T_node), T_id)
       THEN LET id == At(At(r.v, T_node), T_id) IN
            IF ConvertsToInt(id)
            THEN Return(JInt(ToInt(id)))
            ELSE Catch("json::type_error", JInt(-1))
       ELSE Return(JInt(-1))

\* removeNode line 72, updateNode line 86, deleteStructure line 130
NoErrorOnly(response) == Return(JBool(~Find(response, T_error)))

NoErrorResult(response) ==
  Return(JBool(response # <<>> /\ ~Find(response, T_error)))

\* updateNode, lines 79-82
updateNodeData(value, metadata) ==
  MakeObj(<< <<T_value, value>>, <<T_metadata, MapToJson(metadata)>> >>)

\* getStructure lines 93-98, getMatrix lines 119-124
ParsedOrNull(response) ==
  LET r == Parse(response) IN
  IF r.ok THEN Return(r.v) ELSE Catch("json::parse_error", JNull)

\* getAllStructures, lines 104-113
getAllStructuresResult(response) ==
  LET r == Parse(response) IN
  IF ~r.ok THEN Catch("json::parse_error", JArr(<<>>))
  ELSE IF IsArr(r.v) THEN Return(r.v) ELSE Return(JArr(<<>>))

\* isConnected, line 135
isConnectedResult(response) == Return(JBool(response # <<>>))

\* ----------------------------------------------------------- operations
NoArgs ==
  [name |-> NoText, type |-> NoText, depth |-> 0, initial_size |-> 0,
   node_id |-> -1, value |-> JNull, index |-> -1, metadata |-> <<>>]

NoReply == [res |-> "none", status |-> 0, text |-> <<>>]

\* The end of a call of a public operation: mr is what makeRequest ended
\* with, result what the operation returns for mr.response.  `via` is
\* "client" for a direct call and "ManagedStructure" for a call made by the
\* wrapper.
Finish(via, op, args, mr, o, result) ==
  /\ handle' = mr.handle
  /\ last' = [op |-> op, via |-> via, args |-> args, wire |-> mr.wire,
              reply |-> o, response |-> mr.response,
              ret |-> result.ret, raised |-> result.raised]
  /\ UNCHANGED << base_url_, curl_ >>

createStructure(via, name, type, depth, initial_size, o) ==
  \E mr \in makeRequest("POST", Endpoint("/api/live/structure", NoText, NoText),
                        createStructureData(name, type, depth, initial_size), o) :
    Finish(via, "createStructure",
           [NoArgs EXCEPT !.name = name, !.type = type, !.depth = depth,
                          !.initial_size = initial_size],
           mr, o, createStructureResult(mr.response))

addNode(via, structure_name, value, index, metadata, o) ==
  \E mr \in makeRequest("POST",
                        Endpoint("/api/live/structure/{name}/node", structure_name, NoText),
                        addNodeData(value, index, metadata), o) :
    Finish(via, "addNode",
           [NoArgs EXCEPT !.name = structure_name, !.value = value,
                          !.index = index, !.metadata = metadata],
           mr, o, addNodeResult(mr.response))

removeNode(via, structure_name, node_id, o) ==
  \E mr \in makeRequest("DELETE",
                        Endpoint("/api/live/structure/{name}/node/{id}",
                                 structure_name, IntText(node_id)),
                        JNull, o) :
    Finish(via, "removeNode",
           [NoArgs EXCEPT !.name = structure_name, !.node_id = node_id],
           mr, o, NoErrorResult(mr.response))

updateNode(via, structure_name, node_id, value, metadata, o) ==
  \E mr \in makeRequest("PUT",
                        Endpoint("/api/live/structure/{name}/node/{id}",
                                 structure_name, IntText(node_id)),
                        updateNodeData(value, metadata), o) :
    Finish(via, "updateNode",
           [NoArgs EXCEPT !.name = structure_name, !.node_id = node_id,
                          !.value = value, !.metadata = metadata],
           mr, o, NoErrorResult(mr.response))

getStructure(via, structure_name, o) ==
  \E mr \in makeRequest("GET",
                        Endpoint("/api/live/structure/{name}", structure_name, NoText),
                        JNull, o) :
    Finish(via, "getStructure", [NoArgs EXCEPT !.name = structure_name],
           mr, o, ParsedOrNull(mr.response))

getAllStructures(o) ==
  \E mr \in makeRequest("GET", Endpoint("/api/live/structures", NoText, NoText),
                        JNull, o) :
    Finish("client", "getAllStructures", NoArgs, mr, o,
           getAllStructuresResult(mr.response))

getMatrix(o) ==
  \E mr \in makeRequest("GET", Endpoint("/api/live/matrix", NoText, NoText),
                        JNull, o) :
    Finish("client", "getMatrix", NoArgs, mr, o, ParsedOrNull(mr.response))

deleteStructure(via, structure_name, o) ==
  \E mr \in makeRequest("DELETE",
                        Endpoint("/api/live/structure/{name}", structure_name, NoText),
                        JNull, o) :
    Finish(via, "deleteStructure", [NoArgs EXCEPT !.name = structure_name],
           mr, o, NoErrorResult(mr.response))

isConnected(o) ==
  \E mr \in makeRequest("GET", Endpoint("/api/live/structures", NoText, NoText),
                        JNull, o) :
    Finish("client", "isConnected", NoArgs, mr, o, isConnectedResult(mr.response))

\* ------------------------------------------------------ ManagedStructure
NoStructure ==
  [state |-> "none", name |-> NoText, created |-> FALSE, forwarded |-> FALSE,
   deletes |-> <<>>]

\* ms.created records what the constructor's createStructure returned (the
\* constructor itself discards it), ms.forwarded whether a node operation
\* was forwarded since, ms.deletes the names of the deleteStructure calls the
\* destructor made.
\* ~ManagedStructure(): the names it passes to client_.deleteStructure.
DtorIfCreated(m) == IF m.created THEN << m.name >> ELSE <<>>

ManagedStructureDtor(m) == << m.name >>

\* ------------------------------------------------------------ the inputs
\* What one exchange can end with: res is the CURLcode of
\* curl_easy_perform, status and text are what the server sent.
Reply(status, text) == [res |-> "CURLE_OK", status |-> status, text |-> text]

R_created   == Reply(200, << "{", Q, "i", "d", Q, ":", "1", "}" >>)
R_node      == Reply(200, << "{", Q, "n", "o", "d", "e", Q, ":", "{", Q, "i", "d", Q, ":", "7", "}", "}" >>)
R_nodeNoId  == Reply(200, << "{", Q, "n", "o", "d", "e", Q, ":", "{", "}", "}" >>)
R_nodeFlat  == Reply(200, << "{", Q, "n", "o", "d", "e", Q, ":", "7", "}" >>)
R_nodeStrId == Reply(200, << "{", Q, "n", "o", "d", "e", Q, ":", "{", Q, "i", "d", Q, ":", Q, "x", Q, "}", "}" >>)
R_ok        == Reply(200, << "{", Q, "o", "k", Q, ":", "t", "r", "u", "e", "}" >>)
R_idValue   == Reply(200, << "{", Q, "s", Q, ":", Q, "i", "d", Q, "}" >>)
R_terror    == Reply(200, << "{", Q, "v", Q, ":", Q, "t", "e", "r", "r", "o", "r", Q, "}" >>)
R_array     == Reply(200, << "[", "{", Q, "i", "d", Q, ":", "1", "}", "]" >>)
R_noContent == Reply(204, <<>>)
R_notFound  == Reply(404, << "{", Q, "e", "r", "r", "o", "r", Q, ":", Q, "x", Q, "}" >>)
R_conflict  == Reply(409, << "{", Q, "e", "r", "r", "o", "r", Q, ":", Q, "x", Q, ",", Q, "i", "d", Q, ":", "1", "}" >>)
R_html      == Reply(500, << "<", "h", ">" >>)

F_connect == [res |-> "CURLE_COULDNT_CONNECT", status |-> 0, text |-> <<>>]
F_timeout == [res |-> "CURLE_OPERATION_TIMEDOUT", status |-> 200,
              text |-> << "{", Q, "i", "d", Q >>]

AllOutcomes ==
  { R_created, R_node, R_nodeNoId, R_nodeFlat, R_nodeStrId, R_ok, R_idValue,
    R_terror, R_array, R_noContent, R_notFound, R_conflict, R_html,
    F_connect, F_timeout }

FewOutcomes == { R_created, R_notFound, F_connect }

N_list1 == << "l", "i", "s", "t", "1" >>
N_ghost == << "g" >>
M_none  == <<>>
M_color == << <<T_color, JStr(T_red)>> >>

\* the arguments callers pass
AllArgs ==
  [names |-> { N_list1, N_ghost }, types |-> { T_linked_list },
   depths |-> { 1 }, sizes |-> { 0 }, node_ids |-> 0..MaxNodeId,
   values |-> { JInt(42) }, indexes |-> -1..MaxIndex,
   metadata |-> { M_none, M_color }]

OneArgs ==
  [names |-> { N_list1 }, types |-> { T_linked_list },
   depths |-> { 1 }, sizes |-> { 0 }, node_ids |-> { MaxNodeId },
   values |-> { JInt(42) }, indexes |-> { MaxIndex },
   metadata |-> { M_none }]

BaseUrls == { "http://localhost:5000" }

\* ----------------------------------------------------------------- Init
\* VisualizerClient::VisualizerClient: curl_easy_init() yields a handle or
\* NULL; no ManagedStructure exists yet and no operation has been called.
Init ==
  /\ base_url_ \in BaseUrls
  /\ curl_ \in { "handle", "null" }
  /\ handle = FreshHandle
  /\ ms = NoStructure
  /\ last = [op |-> "none", via |-> "client", args |-> NoArgs, wire |-> <<>>,
             reply |-> NoReply, response |-> <<>>, ret |-> JNull,
             raised |-> FALSE]

\* ------------------------------------------------- calls on the client
CreateStructure(A, O) ==
  \E name \in A.names, type \in A.types, depth \in A.depths,
     initial_size \in A.sizes, o \in O :
    createStructure("client", name, type, depth, initial_size, o) /\ UNCHANGED ms

AddNode(A, O) ==
  \E name \in A.names, value \in A.values, index \in A.indexes,
     metadata \in A.metadata, o \in O :
    addNode("client", name, value, index, metadata, o) /\ UNCHANGED ms

RemoveNode(A, O) ==
  \E name \in A.names, node_id \in A.node_ids, o \in O :
    removeNode("client", name, node_id, o) /\ UNCHANGED ms

UpdateNode(A, O) ==
  \E name \in A.names, node_id \in A.node_ids, value \in A.values,
     metadata \in A.metadata, o \in O :
    updateNode("client", name, node_id, value, metadata, o) /\ UNCHANGED ms

GetStructure(A, O) ==
  \E name \in A.names, o \in O : getStructure("client", name, o) /\ UNCHANGED ms

GetAllStructures(O) == \E o \in O : getAllStructures(o) /\ UNCHANGED ms

GetMatrix(O) == \E o \in O : getMatrix(o) /\ UNCHANGED ms

DeleteStructure(A, O) ==
  \E name \in A.names, o \in O : deleteStructure("client", name, o) /\ UNCHANGED ms

IsConnected(O) == \E o \in O : isConnected(o) /\ UNCHANGED ms

\* ------------------------------------------ calls on the ManagedStructure
\* ManagedStructure(client, name, type, depth): createStructure(name, type,
\* depth), initial_size defaulted, result discarded
Construct(A, O) ==
  /\ ms.state # "alive"
  /\ \E name \in A.names, type \in A.types, depth \in A.depths, o \in O :
       /\ createStructure("ManagedStructure", name, type, depth, 0, o)
       /\ ms' = [state |-> "alive", name |-> name, created |-> last'.ret.b,
                 forwarded |-> FALSE, deletes |-> <<>>]

Destroy(O) ==
  /\ ms.state = "alive"
  /\ LET calls == ManagedStructureDtor(ms) IN
     IF calls = <<>>
     THEN /\ ms' = [ms EXCEPT !.state = "destroyed"]
          /\ UNCHANGED << base_url_, curl_, handle, last >>
     ELSE /\ \E o \in O : deleteStructure("ManagedStructure", calls[1], o)
          /\ ms' = [ms EXCEPT !.state = "destroyed",
                              !.deletes = << last'.args.name >>]

ForwardAddNode(A, O) ==
  /\ ms.state = "alive"
  /\ \E value \in A.values, index \in A.indexes, metadata \in A.metadata, o \in O :
       addNode("ManagedStructure", ms.name, value, index, metadata, o)
  /\ ms' = [ms EXCEPT !.forwarded = TRUE]

ForwardRemoveNode(A, O) ==
  /\ ms.state = "alive"
  /\ \E node_id \in A.node_ids, o \in O :
       removeNode("ManagedStructure", ms.name, node_id, o)
  /\ ms' = [ms EXCEPT !.forwarded = TRUE]

ForwardUpdateNode(A, O) ==
  /\ ms.state = "alive"
  /\ \E node_id \in A.node_ids, value \in A.values, metadata \in A.metadata, o \in O :
       updateNode("ManagedStructure", ms.name, node_id, value, metadata, o)
  /\ ms' = [ms EXCEPT !.forwarded = TRUE]

ForwardGetStructure(O) ==
  /\ ms.state = "alive"
  /\ \E o \in O : getStructure("ManagedStructure", ms.name, o)
  /\ ms' = [ms EXCEPT !.forwarded = TRUE]

\* ------------------------------------------------------ specifications
\* Every operation with every argument the callers pass, against a server
\* that answers with a success, an error, or not at all.
Next ==
  \/ CreateStructure(AllArgs, FewOutcomes)
  \/ AddNode(AllArgs, FewOutcomes)
  \/ RemoveNode(AllArgs, FewOutcomes)
  \/ UpdateNode(AllArgs, FewOutcomes)
  \/ GetStructure(AllArgs, FewOutcomes)
  \/ GetAllStructures(FewOutcomes)
  \/ GetMatrix(FewOutcomes)
  \/ DeleteStructure(AllArgs, FewOutcomes)
  \/ IsConnected(FewOutcomes)
  \/ Construct(AllArgs, FewOutcomes)
  \/ Destroy(FewOutcomes)
  \/ ForwardAddNode(AllArgs, FewOutcomes)
  \/ ForwardRemoveNode(AllArgs, FewOutcomes)
  \/ ForwardUpdateNode(AllArgs, FewOutcomes)
  \/ ForwardGetStructure(FewOutcomes)

Spec == Init /\ [][Next]_vars

\* Every operation with one choice of arguments, against every answer of
\* the server and every transport failure.
NextReplies ==
  \/ CreateStructure(OneArgs, AllOutcomes)
  \/ AddNode(OneArgs, AllOutcomes)
  \/ RemoveNode(OneArgs, AllOutcomes)
  \/ UpdateNode(OneArgs, AllOutcomes)
  \/ GetStructure(OneArgs, AllOutcomes)
  \/ GetAllStructures(AllOutcomes)
  \/ GetMatrix(AllOutcomes)
  \/ DeleteStructure(OneArgs, AllOutcomes)
  \/ IsConnected(AllOutcomes)

SpecReplies == Init /\ [][NextReplies]_vars

\* ------------------------------------------------------------ properties
IsBoolOp(op) == op \in { "removeNode", "updateNode", "deleteStructure" }
Sent == curl_ = "handle" /\ Len(last.wire) = 1

\* the verb each operation is documented to use
VerbOf(op) ==
  CASE op \in { "createStructure", "addNode" } -> "POST"
    [] op = "updateNode" -> "PUT"
    [] op \in { "removeNode", "deleteStructure" } -> "DELETE"
    [] OTHER -> "GET"

C2_FalseIffError ==
  (IsBoolOp(last.op) /\ curl_ = "handle" /\ last.reply.res = "CURLE_OK")
    => (last.ret = JBool(FALSE) <=> Find(last.response, T_error))

\* C2 amended: removeNode, updateNode and deleteStructure return false
\* exactly when the response text is empty or contains "error", and true
\* otherwise; the boolean depends on the response text alone.
C2_FalseIffEmptyOrError ==
  IsBoolOp(last.op)
    => /\ last.ret \in { JBool(TRUE), JBool(FALSE) }
       /\ last.ret = JBool(FALSE)
            <=> (last.response = <<>> \/ Find(last.response, T_error))

C2_Witness ==
  /\ last.op = "deleteStructure"
  /\ curl_ = "handle"
  /\ last.reply = R_noContent
  /\ last.ret = JBool(FALSE)

\* C3: once a ManagedStructure is destroyed its destructor has made exactly
\* one deleteStructure call, for the bound name, whether or not the
\* constructor's createStructure succeeded and whatever was forwarded; while
\* it is alive it has made none.
C3_DestroyDeletesOnce ==
  /\ ms.state = "destroyed" => ms.deletes = << ms.name >>
  /\ ms.state = "alive" => ms.deletes = <<>>

C3_Witness ==
  /\ ms.state = "destroyed"
  /\ ~ms.created
  /\ ms.forwarded
  /\ ms.deletes = << ms.name >>

\* whether a json value holds the key "id" at any depth
RECURSIVE HasIdField(_)
HasIdField(v) ==
  CASE v.k = "obj" -> \E i \in DOMAIN v.m : v.m[i][1] = T_id \/ HasIdField(v.m[i][2])
    [] v.k = "arr" -> \E i \in DOMAIN v.a : HasIdField(v.a[i])
    [] OTHER -> FALSE

\* C4 as stated: createStructure returns true exactly when the response
\* holds an identifier field.
C4_TrueIffIdField ==
  last.op = "createStructure"
    => (last.ret = JBool(TRUE)
          <=> (Parse(last.response).ok /\ HasIdField(Parse(last.response).v)))

\* C4 amended: createStructure returns true exactly when the response text
\* contains the four characters "id" (quote, i, d, quote), wherever they
\* stand in it; it returns false for every other text, the empty one included.
C4_TrueIffIdText ==
  last.op = "createStructure"
    => /\ last.ret = JBool(Find(last.response, T_QidQ))
       /\ last.response = <<>> => last.ret = JBool(FALSE)

C4_Witness ==
  /\ last.op = "createStructure"
  /\ curl_ = "handle"
  /\ last.reply = R_idValue
  /\ last.ret = JBool(TRUE)

\* C5: addNode returns the integer found at node.id of the response, -1 for
\* every response without that field or that is not JSON, and never raises.
C5_AddNodeReturnsNodeId ==
  last.op = "addNode"
    => /\ ~last.raised
       /\ LET r == Parse(last.response) IN
          IF r.ok /\ Contains(r.v, T_node) /\ Contains(At(r.v, T_node), T_id)
          THEN At(At(r.v, T_node), T_id).k = "int"
                 => last.ret = At(At(r.v, T_node), T_id)
          ELSE last.ret = JInt(-1)

C5_Witness ==
  /\ last.op = "addNode"
  /\ curl_ = "handle"
  /\ last.reply = R_node
  /\ last.ret = JInt(7)

\* the value each operation returns for "failed"
FailureValue(op) ==
  CASE op = "addNode" -> JInt(-1)
    [] op \in { "getStructure", "getMatrix" } -> JNull
    [] op = "getAllStructures" -> JArr(<<>>)
    [] OTHER -> JBool(FALSE)

\* C6: when the exchange fails or the handle was never initialised, the
\* operation returns its failure value and raises nothing.
C6_FailureValueOnTransportFailure ==
  (last.op # "none" /\ (curl_ = "null" \/ last.reply.res # "CURLE_OK"))
    => /\ ~last.raised
       /\ last.ret = FailureValue(last.op)

C6_Witness ==
  /\ last.op = "createStructure"
  /\ curl_ = "handle"
  /\ last.reply = F_timeout
  /\ last.ret = JBool(FALSE)

\* C7 as stated: every call opens exactly one exchange, against base_url_.
C7_ExactlyOneExchange ==
  last.op # "none"
    => /\ Len(last.wire) = 1
       /\ last.wire[1].url.base = base_url_

\* C7 amended: every call opens exactly one exchange against base_url_ when
\* the transport handle was initialised, and none when it was not; never
\* more than one.
C7_OneExchangeIfHandle ==
  last.op # "none"
    => /\ Len(last.wire) = (IF curl_ = "handle" THEN 1 ELSE 0)
       /\ \A i \in DOMAIN last.wire : last.wire[i].url.base = base_url_

C7_Witness ==
  /\ last.op = "addNode"
  /\ last.via = "ManagedStructure"
  /\ curl_ = "handle"
  /\ Len(last.wire) = 1

\* C8: createStructure returns false whenever the server answers with an
\* error status, whatever the body.
C8_FalseOnErrorStatus ==
  (last.op = "createStructure" /\ curl_ = "handle"
     /\ last.reply.res = "CURLE_OK" /\ last.reply.status >= 400)
    => last.ret = JBool(FALSE)

\* C9: the body sent by addNode and updateNode decodes to an object with the
\* keys value and metadata, metadata being the empty object when the caller
\* gave no entries; index is a key exactly for addNode with index >= 0.
C9_BodyKeys ==
  last.op \in { "addNode", "updateNode" }
    => \A i \in DOMAIN last.wire :
         LET r == Parse(last.wire[i].body.text) IN
         /\ last.wire[i].body.from = "call"
         /\ r.ok
         /\ Contains(r.v, T_value)
         /\ At(r.v, T_value) = last.args.value
         /\ Contains(r.v, T_metadata)
         /\ IsObj(At(r.v, T_metadata))
         /\ last.args.metadata = <<>> => At(r.v, T_metadata) = JObj(<<>>)
         /\ Contains(r.v, T_index)
              <=> (last.op = "addNode" /\ last.args.index >= 0)

C9_Witness ==
  /\ last.op = "addNode"
  /\ Sent
  /\ last.args.metadata = <<>>
  /\ last.args.index = -1
  /\ Find(last.wire[1].body.text, << Q >> \o T_metadata \o << Q, ":", "{", "}" >>)

\* the encoding of the arguments of the last call
OwnBody ==
  CASE last.op = "createStructure" ->
         Dump(createStructureData(last.args.name, last.args.type,
                                  last.args.depth, last.args.initial_size))
    [] last.op = "addNode" ->
         Dump(addNodeData(last.args.value, last.args.index, last.args.metadata))
    [] last.op = "updateNode" ->
         Dump(updateNodeData(last.args.value, last.args.metadata))
    [] OTHER -> <<>>

\* C10: a GET or DELETE exchange carries no body and a POST or PUT exchange
\* carries the encoding of its own call's arguments, never bytes reached
\* through what an earlier call configured on the handle.
C10_BodyOfThisCallOnly ==
  \A i \in DOMAIN last.wire :
    /\ last.wire[i].body.text = OwnBody
    /\ last.wire[i].body.from # "dangling" \/ last.wire[i].body.text = <<>>
====
